---- MODULE Spec2Model ----
(***************************************************************************)
(* Model of backend/services/solar.py: the address -> building perimeter   *)
(* estimator (get_best_free_building_perimeter), its two methods           *)
(* (get_building_perimeter_microsoft, get_google_solar_data), the polygon  *)
(* calculator (calculate_building_perimeter) and the process-wide result   *)
(* cache.                                                                  *)
(*                                                                         *)
(* Python values are modelled as follows.                                  *)
(*   dict       a TLA+ record/function whose DOMAIN is the set of keys     *)
(*   None       the record None                                            *)
(*   raise      the record Raise(msg): an exception leaving a body         *)
(*   float      Fl(n): the number n/Scale (exact decimal fixed point),     *)
(*              or NaN; unrounded products are exact decimals (Dec)        *)
(*   id(obj)    the key "oid" of a dict: a fresh number per created dict   *)
(***************************************************************************)
EXTENDS Integers, Sequences, FiniteSets, TLC

\* ------------------------------------------------------------------------
\* Numbers
\* ------------------------------------------------------------------------

\* Number of decimal places held by a modelled float.
ScalePlaces == 2

RECURSIVE Pow10(_)
Pow10(k) == IF k = 0 THEN 1 ELSE 10 * Pow10(k - 1)

\* Fixed-point denominator of a modelled float: Fl(n) stands for n / Scale.
Scale == Pow10(ScalePlaces)

Fl(n) == [v |-> n]

NaN == [nan |-> TRUE]

IsNaN(x) == "nan" \in DOMAIN x

\* (mutant) >= in place of >
FGe(x, n) == "nan" \notin DOMAIN x /\ x.v >= n * Pow10(ScalePlaces)

\* Python's float comparisons: every comparison with NaN is False.
FGt(x, n) == ~IsNaN(x) /\ x.v > n * Scale

FLt(x, n) == ~IsNaN(x) /\ x.v < n * Scale

Abs(n) == IF n < 0 THEN -n ELSE n

\* int(a / b) for b > 0: Python's int() truncates toward zero.
TruncDiv(a, b) == IF a >= 0 THEN a \div b ELSE -((-a) \div b)

\* Decimal digits of a natural number, least significant first.
RECURSIVE Digits(_)
Digits(n) == IF n = 0 THEN <<>> ELSE <<n % 10>> \o Digits(n \div 10)

RECURSIVE ValueOf(_)
ValueOf(ds) == IF ds = <<>> THEN 0 ELSE Head(ds) + 10 * ValueOf(Tail(ds))

\* ds * k + carry on digit sequences (schoolbook multiplication).
RECURSIVE MulDigits(_, _, _)
MulDigits(ds, k, carry) ==
    IF ds = <<>> THEN Digits(carry)
    ELSE LET t == Head(ds) * k + carry
         IN  <<t % 10>> \o MulDigits(Tail(ds), k, t \div 10)

\* An exact decimal: (-1)^neg * ValueOf(ds) / 10^e.
Dec(m, e) == [neg |-> m < 0, ds |-> Digits(Abs(m)), e |-> e]

ToDec(x) == Dec(x.v, ScalePlaces)

\* Exact product of two decimals; c is a short constant.
DecMul(x, c) ==
    [neg |-> (x.neg /= c.neg), ds |-> MulDigits(x.ds, ValueOf(c.ds), 0), e |-> x.e + c.e]

AllZero(ds) == \A i \in 1..Len(ds) : ds[i] = 0

\* round(x, places) of an exact decimal, ties to even, as a Fl value.
DecRound(x, places) ==
    LET drop == x.e - places
        n    == Len(x.ds)
        kept == IF drop >= n THEN <<>> ELSE SubSeq(x.ds, drop + 1, n)
        top  == IF drop >= 1 /\ drop <= n THEN x.ds[drop] ELSE 0
        rest == IF drop >= 2 /\ drop <= n THEN SubSeq(x.ds, 1, drop - 1)
                ELSE IF drop > n THEN x.ds ELSE <<>>
        q    == ValueOf(kept)
        up   == \/ top > 5
                \/ top = 5 /\ ~AllZero(rest)
                \/ top = 5 /\ AllZero(rest) /\ q % 2 = 1
        r    == (IF up THEN q + 1 ELSE q) * Pow10(ScalePlaces - places)
    IN  Fl(IF x.neg THEN -r ELSE r)

\* A Fl value or an exact decimal, as an exact decimal.
AsDec(x) == IF "v" \in DOMAIN x THEN ToDec(x) ELSE x

\* float * constant, unrounded (NaN propagates).
FMul(x, c) == IF IsNaN(x) THEN NaN ELSE DecMul(AsDec(x), c)

\* round(value, places) where value is a Fl, an unrounded product or NaN.
Round(x, places) == IF IsNaN(x) THEN NaN ELSE DecRound(AsDec(x), places)

\* Integer square root (largest r with r*r <= n), by bisection.
RECURSIVE ISqrtIn(_, _, _)
ISqrtIn(n, lo, hi) ==
    IF lo >= hi THEN lo
    ELSE LET mid == (lo + hi + 1) \div 2
         IN  IF mid * mid <= n THEN ISqrtIn(n, mid, hi) ELSE ISqrtIn(n, lo, mid - 1)

\* math.sqrt of a positive Fl value, to the fixed-point precision.
FSqrt(x) == Fl(ISqrtIn(x.v * Scale, 0, 40000))

FAdd(x, y) == IF IsNaN(x) \/ IsNaN(y) THEN NaN ELSE Fl(x.v + y.v)

\* ------------------------------------------------------------------------
\* Python objects
\* ------------------------------------------------------------------------

None == [none |-> TRUE]

IsNone(x) == "none" \in DOMAIN x

Raise(msg) == [raised |-> msg]

IsRaise(x) == "raised" \in DOMAIN x

\* dict.update / dict[key] = value on records.
Put(d, k, val) == [x \in DOMAIN d \cup {k} |-> IF x = k THEN val ELSE d[x]]

\* (mutant) a cache that only hits on successes
TruthyOnlySuccess(x) == "none" \notin DOMAIN x /\ DOMAIN x /= {} /\ "error" \notin DOMAIN x

\* Truth value of a dict-or-None (bool(None) and bool({}) are False).
Truthy(x) == ~IsNone(x) /\ DOMAIN x /= {}

\* "error" in result
HasError(x) == "error" \in DOMAIN x

\* Error messages: a record holding the literal text and any formatted part.
Msg(text) == [text |-> text]

MsgV(text, val, tail) == [text |-> text, value |-> val, tail |-> tail]

MsgE(text, exc) == [text |-> text, exc |-> exc]

\* ------------------------------------------------------------------------
\* calculate_building_perimeter
\* ------------------------------------------------------------------------
\* footprint_geometry g, as the code observes it:
\*   kind    "falsy" (None, {}), "other" (type is not "Polygon"), "nokey"
\*           (a Polygon without "coordinates"), "polygon"
\*   n       len(coordinates[0])
\*   valid   shapely's verdict: "valid", "repairable" (make_valid gives a
\*           valid geometry), "unrepairable"
\*   bounds  polygon.bounds = <<minx, miny, maxx, maxy>>, degrees
\*   clng, clat   polygon.centroid
\* pyproj/shapely outcomes o for this polygon:
\*   utmCtor, mercCtor   Transformer.from_crs: "ok" or "raise"
\*   xform               shapely.ops.transform: "ok" or "raise", per family
\*   length, area        of the projected polygon, per projection family
\*                       ("utm", "merc")

METERS_TO_FEET == Dec(328084, 5)

\* (mutant) the per-metre rate of 20 in place of the per-foot rate
CostPerMeter == Dec(2000, 2)

cost_per_foot == Dec(610, 2)

MAX_PERIMETER == 5000

MAX_AREA == 10000

MIN_PERIMETER == 1

MIN_AREA == 1

MAX_BOUNDS_DEGREES == 1

WebMercator == [prefix |-> "EPSG:3857", zone |-> <<>>]

\* (mutant) zones counted from 0
UtmZoneFromZero(clng) == TruncDiv(clng.v + 180 * Scale, 6 * Scale)

\* utm_zone = int((centroid.x + 180) / 6) + 1
UtmZone(clng) == TruncDiv(clng.v + 180 * Scale, 6 * Scale) + 1

\* f"{utm_zone:02d}" for 0 <= utm_zone < 100, as its characters' digits
Format02d(zone) == <<zone \div 10, zone % 10>>

\* f"EPSG:326{utm_zone:02d}" if centroid.y >= 0 else f"EPSG:327{utm_zone:02d}"
UtmEpsg(zone, clat) ==
    [prefix |-> IF clat.v >= 0 THEN "EPSG:326" ELSE "EPSG:327", zone |-> Format02d(zone)]

\* The inner try/except: the projection used, or the exception that leaves it.
SelectProjection(g, o) ==
    LET utm_zone == UtmZone(g.clng)
        failed   == utm_zone < 1 \/ utm_zone > 60 \/ o.utmCtor = "raise"
    IN  IF ~failed
        THEN [utm_epsg |-> UtmEpsg(utm_zone, g.clat), family |-> "utm"]
        ELSE IF o.mercCtor = "raise" THEN Raise("CRSError")
        ELSE [utm_epsg |-> WebMercator, family |-> "merc"]

\* The dict returned on success (lines 374-401).
PerimeterResult(g, utm_epsg, perimeter_meters, area_square_meters) ==
    LET perimeter_feet   == FMul(perimeter_meters, METERS_TO_FEET)
        area_square_feet == FMul(FMul(area_square_meters, METERS_TO_FEET), METERS_TO_FEET)
        estimated_cost   == FMul(perimeter_feet, cost_per_foot)
    IN  [roof_perimeter_feet   |-> Round(perimeter_feet, 1),
         roof_perimeter_meters |-> Round(perimeter_meters, 1),
         roof_area_feet        |-> Round(area_square_feet, 1),
         roof_area_meters      |-> Round(area_square_meters, 1),
         estimated_cost_usd    |-> Round(estimated_cost, 2),
         cost_per_foot         |-> cost_per_foot,
         building_footprint    |-> g,
         utm_zone              |-> utm_epsg,
         calculation_method    |-> "precise_geodetic",
         debug_info            |-> [centroid_lng |-> g.clng, centroid_lat |-> g.clat,
                                    bounds |-> g.bounds, coordinate_count |-> g.n]]

\* (mutant) an implausible value is flagged on the full result
MeasureFlagged(g, utm_epsg, perimeter_meters, area_square_meters) ==
    IF \/ FGt(perimeter_meters, MAX_PERIMETER) \/ FGt(area_square_meters, MAX_AREA)
       \/ FLt(perimeter_meters, MIN_PERIMETER) \/ FLt(area_square_meters, MIN_AREA)
    THEN Put(PerimeterResult(g, utm_epsg, perimeter_meters, area_square_meters),
             "error", Msg("Unrealistic values. Possible projection error."))
    ELSE PerimeterResult(g, utm_epsg, perimeter_meters, area_square_meters)

\* Lines 355-401: the sanity checks on the projected values, in the code's
\* order, then the result.
Measure(g, utm_epsg, perimeter_meters, area_square_meters) ==
    IF FGt(perimeter_meters, MAX_PERIMETER)
    THEN [error |-> MsgV("Unrealistic perimeter: ", Round(perimeter_meters, 1),
                         "m (>5km). Possible projection error.")]
    ELSE IF FGt(area_square_meters, MAX_AREA)
    THEN [error |-> MsgV("Unrealistic area: ", Round(area_square_meters, 1),
                         "m2 (>10,000m2). Possible projection error.")]
    ELSE IF FLt(perimeter_meters, MIN_PERIMETER)
    THEN [error |-> MsgV("Unrealistic perimeter: ", Round(perimeter_meters, 1),
                         "m (<1m). Possible projection error.")]
    ELSE IF FLt(area_square_meters, MIN_AREA)
    THEN [error |-> MsgV("Unrealistic area: ", Round(area_square_meters, 1),
                         "m2 (<1m2). Possible projection error.")]
    ELSE PerimeterResult(g, utm_epsg, perimeter_meters, area_square_meters)

\* Line 353 on: transform(project, polygon) with the projection sel chosen
\* by the inner try/except (or the exception that left it).
Project(g, o, sel) ==
    IF IsRaise(sel) THEN sel
    ELSE IF o.xform[sel.family] = "raise" THEN Raise("ProjError")
    ELSE Measure(g, sel.utm_epsg, o.length[sel.family], o.area[sel.family])

\* (mutant) the body without the check of the bounds
CalcBodyNoBoundsCheck(g, o) ==
    IF g.kind = "falsy" \/ g.kind = "other"
    THEN [error |-> Msg("Invalid footprint geometry")]
    ELSE IF g.kind = "nokey" THEN Raise("KeyError: 'coordinates'")
    ELSE IF g.n = 0 THEN Raise("IndexError: list index out of range")
    ELSE IF g.n < 3 THEN [error |-> Msg("Invalid polygon: insufficient coordinates")]
    ELSE IF g.valid = "unrepairable" THEN [error |-> Msg("Could not fix invalid polygon")]
    ELSE Project(g, o, SelectProjection(g, o))

\* The body of the outer try: the value returned, or the exception raised.
CalcBody(g, o) ==
    IF g.kind = "falsy" \/ g.kind = "other"
    THEN [error |-> Msg("Invalid footprint geometry")]
    ELSE IF g.kind = "nokey" THEN Raise("KeyError: 'coordinates'")
    ELSE IF g.n = 0 THEN Raise("IndexError: list index out of range")
    ELSE IF g.n < 3 THEN [error |-> Msg("Invalid polygon: insufficient coordinates")]
    ELSE IF g.valid = "unrepairable" THEN [error |-> Msg("Could not fix invalid polygon")]
    ELSE IF \/ Abs(g.bounds[3].v - g.bounds[1].v) > MAX_BOUNDS_DEGREES * Scale
            \/ Abs(g.bounds[4].v - g.bounds[2].v) > MAX_BOUNDS_DEGREES * Scale
    THEN [error |-> Msg("Polygon bounds too large - possible coordinate error")]
    ELSE Project(g, o, SelectProjection(g, o))

\* try: ... except Exception as e: return {"error": f"<text>{str(e)}"}
\* around a body whose outcome is r.
Except(r, text) == IF IsRaise(r) THEN [error |-> MsgE(text, r.raised)] ELSE r

\* The same around a method body b = [result, calls].
ExceptCall(b, text) ==
    IF IsRaise(b.result)
    THEN [result |-> [error |-> MsgE(text, b.result.raised)], calls |-> b.calls]
    ELSE b

\* (mutant) the body without its try/except
CalcUnguarded(g, o) == CalcBody(g, o)

calculate_building_perimeter(g, o) ==
    Except(CalcBody(g, o), "Failed to calculate perimeter: ")

\* ------------------------------------------------------------------------
\* External services, as outcomes
\* ------------------------------------------------------------------------
\* geocode_address: the pair (lat, lng), or (None, None) on a non-200
\* answer, an answer without results or an exception.
NoLocation == [found |-> FALSE]

Location(lat, lng) == [found |-> TRUE, lat |-> Fl(lat), lng |-> Fl(lng)]

\* `not lat or not lng`: None and 0.0 are both falsy.
GeocodeFailed(loc) == ~loc.found \/ loc.lat.v = 0 \/ loc.lng.v = 0

\* query_microsoft_building_footprints(lat, lng): the STAC search answers
\*   "non200", "exception", "no_features"   -> the direct query is tried
\*   "contains"   a returned polygon contains the point -> its geometry
\*   "no_match"   features, none containing the point   -> None
\* query_microsoft_footprints_direct answers "found" or "none".
\* The value is [geometry, calls]: the geometry (or None) and the requests made.
\* (mutant) a failed search is retried once before the direct query
QueryWithRetry(ext) ==
    IF ext.stac \in {"non200", "exception", "no_features"}
    THEN [geometry |-> IF ext.direct = "found" THEN ext.footprint ELSE None,
          calls    |-> <<"stac_search", "stac_search", "reverse_geocode">>]
    ELSE [geometry |-> IF ext.stac = "contains" THEN ext.footprint ELSE None,
          calls    |-> <<"stac_search">>]

query_microsoft_building_footprints(ext) ==
    IF ext.stac \in {"non200", "exception", "no_features"}
    THEN [geometry |-> IF ext.direct = "found" THEN ext.footprint ELSE None,
          calls    |-> <<"stac_search", "reverse_geocode">>]
    ELSE [geometry |-> IF ext.stac = "contains" THEN ext.footprint ELSE None,
          calls    |-> <<"stac_search">>]

\* ------------------------------------------------------------------------
\* get_building_perimeter_microsoft
\* ------------------------------------------------------------------------
\* Each method operator yields [result, calls]: the value returned (or the
\* exception raised) and the requests it made, in order.
\* Lines 46-50: the result of the calculation, annotated.
Annotate(address, perimeter_result, calls) ==
    [result |-> IF IsRaise(perimeter_result) THEN perimeter_result
                ELSE Put(Put(Put(perimeter_result, "address", address),
                             "method", "microsoft_building_footprints"),
                         "accuracy", "high"),
     calls  |-> calls]

\* Lines 40-50, q being the outcome of the footprint query.
AfterQuery(address, ext, q) ==
    IF ~Truthy(q.geometry)
    THEN [result |-> [error |-> Msg("No building footprint found at this location")],
          calls  |-> <<"geocode">> \o q.calls]
    ELSE Annotate(address, calculate_building_perimeter(q.geometry, ext.lib),
                  <<"geocode">> \o q.calls)

MicrosoftBody(address, ext) ==
    IF GeocodeFailed(ext.geocode1)
    THEN [result |-> [error |-> Msg("Failed to geocode address")],
          calls  |-> <<"geocode">>]
    ELSE AfterQuery(address, ext, query_microsoft_building_footprints(ext))

get_building_perimeter_microsoft(address, ext) ==
    ExceptCall(MicrosoftBody(address, ext), "Failed to get Microsoft building footprint: ")

\* ------------------------------------------------------------------------
\* get_google_solar_data
\* ------------------------------------------------------------------------
\* The buildingInsights answer ext.solar:
\*   [kind |-> "exception"]                requests.get or response.json raises
\*   [kind |-> "status", code |-> c]       c /= 200
\*   [kind |-> "ok", name, segs]           200; name: "name" in data;
\*                                         segs: data.get("roofSegmentStats", [])
\* A segment: pitch ("pitchDegrees" in segment), hasArea, area.

\* segment.get("groundAreaMeters2", 0)
SegmentArea(segment) == IF segment.hasArea THEN segment.area ELSE Fl(0)

\* The loop of lines 491-503 over the segments, from the totals so far.
RECURSIVE SegmentTotals(_, _)
SegmentTotals(segs, tot) ==
    IF segs = <<>> THEN tot
    ELSE LET segment      == Head(segs)
             segment_area == SegmentArea(segment)
             next == IF ~segment.pitch THEN tot
                     ELSE [total_area      |-> FAdd(tot.total_area, segment_area),
                           total_perimeter |->
                               IF FGt(segment_area, 0)
                               THEN FAdd(tot.total_perimeter, Fl(4 * FSqrt(segment_area).v))
                               ELSE tot.total_perimeter]
         IN  SegmentTotals(Tail(segs), next)

\* Lines 505-524: the conversions, the cost and the result, from the totals.
SolarResult(address, tot) ==
    LET perimeter_feet   == FMul(tot.total_perimeter, METERS_TO_FEET)
        area_square_feet == FMul(FMul(tot.total_area, METERS_TO_FEET), METERS_TO_FEET)
        estimated_cost   == FMul(perimeter_feet, cost_per_foot)
    IN  [roof_perimeter_feet   |-> Round(perimeter_feet, 1),
         roof_perimeter_meters |-> Round(tot.total_perimeter, 1),
         roof_area_feet        |-> Round(area_square_feet, 1),
         roof_area_meters      |-> Round(tot.total_area, 1),
         estimated_cost_usd    |-> Round(estimated_cost, 2),
         cost_per_foot         |-> cost_per_foot,
         method                |-> "google_solar_api",
         accuracy              |-> "medium",
         address               |-> address]

SolarBody(address, ext) ==
    IF GeocodeFailed(ext.geocode2)
    THEN [result |-> [error |-> Msg("Failed to geocode address")],
          calls  |-> <<"geocode">>]
    ELSE IF ext.solar.kind = "exception"
    THEN [result |-> Raise("ConnectionError"), calls |-> <<"geocode", "building_insights">>]
    ELSE IF ext.solar.kind = "status"
    THEN [result |-> [error |-> MsgV("Google Solar API error: ", ext.solar.code, "")],
          calls  |-> <<"geocode", "building_insights">>]
    ELSE IF ~ext.solar.name
    THEN [result |-> [error |-> Msg("No building data found")],
          calls  |-> <<"geocode", "building_insights">>]
    ELSE [result |-> SolarResult(address,
                         SegmentTotals(ext.solar.segs,
                                       [total_area |-> Fl(0), total_perimeter |-> Fl(0)])),
          calls  |-> <<"geocode", "building_insights">>]

get_google_solar_data(address, ext) ==
    ExceptCall(SolarBody(address, ext), "Google Solar API failed: ")

\* ------------------------------------------------------------------------
\* get_best_free_building_perimeter, as one function of the cache entry
\* and of the outcomes of the external services
\* ------------------------------------------------------------------------
EmptyDict == [k \in {} |-> None]

\* Line 575: final_result
FinalResultWithoutDetails(results_) == [error |-> Msg("All free methods failed")]

FinalResult(results_) == [error |-> Msg("All free methods failed"), details |-> results_]

\* The value is [result, calls, tried, store]: the value returned (or the
\* exception that leaves the function), the requests made, the methods
\* attempted, and whether cache_result was called with the result.
Outcome(result, calls, tried_, store) ==
    [result |-> result, calls |-> calls, tried |-> tried_, store |-> store]

\* Lines 563-578, m and s being what the two methods gave.
AfterGoogle(m, s) ==
    IF IsRaise(s.result)
    THEN Outcome(s.result, m.calls \o s.calls, <<"microsoft", "google_solar">>, FALSE)
    ELSE IF ~HasError(s.result)
    THEN Outcome(s.result, m.calls \o s.calls, <<"microsoft", "google_solar">>, TRUE)
    ELSE Outcome(FinalResult(Put(Put(EmptyDict, "microsoft", m.result),
                                     "google_solar", s.result)),
                 m.calls \o s.calls, <<"microsoft", "google_solar">>, TRUE)

\* Lines 548-562, m being what method 1 gave.
AfterMicrosoft(address, ext, m) ==
    IF IsRaise(m.result) THEN Outcome(m.result, m.calls, <<"microsoft">>, FALSE)
    ELSE IF ~HasError(m.result) THEN Outcome(m.result, m.calls, <<"microsoft">>, TRUE)
    ELSE AfterGoogle(m, get_google_solar_data(address, ext))

get_best_free_building_perimeter(address, cached_result, ext) ==
    IF Truthy(cached_result) THEN Outcome(cached_result, <<>>, <<>>, FALSE)
    ELSE AfterMicrosoft(address, ext, get_building_perimeter_microsoft(address, ext))

\* ------------------------------------------------------------------------
\* Inputs
\* ------------------------------------------------------------------------
\* Longest coordinate ring drawn.
MaxCoords == 4

\* Longest roofSegmentStats list drawn.
MaxSegs == 2

Addresses == {"4 Pattie Pl", "766 E Creekwood Ln"}

\* A small building: a ring of n vertices around (clng, clat), in 1/Scale degrees.
Box(clng, clat, w, h) == <<Fl(clng), Fl(clat), Fl(clng + w), Fl(clat + h)>>

Geom(kind, n, valid, bounds, clng, clat) ==
    [kind |-> kind, n |-> n, valid |-> valid, bounds |-> bounds,
     clng |-> Fl(clng), clat |-> Fl(clat)]

GoodGeom == Geom("polygon", MaxCoords, "valid", Box(-7390, 4160, 1, 1), -7390, 4160)

Lib(utmCtor, mercCtor, xformUtm, xformMerc, len, area, mlen, marea) ==
    [utmCtor |-> utmCtor, mercCtor |-> mercCtor,
     xform  |-> [utm |-> xformUtm, merc |-> xformMerc],
     length |-> [utm |-> len, merc |-> mlen],
     area   |-> [utm |-> area, merc |-> marea]]

GoodLib == Lib("ok", "ok", "ok", "ok", Fl(4025), Fl(10015), Fl(5380), Fl(17890))

Outcomes == {"ok", "raise"}

\* Projected lengths and areas around the sanity limits (metres * Scale).
LengthValues == {Fl(0), Fl(99), Fl(100), Fl(101), Fl(4025), Fl(500000), Fl(500001), NaN}

AreaValues == {Fl(0), Fl(99), Fl(100), Fl(101), Fl(10015), Fl(1000000), Fl(1000001), NaN}

\* Centroid longitudes: every 1.5 degrees from -186 to 186, and the edges
\* of the first and last zones.
LonValues ==
    {-18600 + 150 * k : k \in 0..248}
    \cup {-18001, -18000, -17999, -17401, -17400, -1, 0, 599, 600, 17399, 17400,
          17990, 17999, 18000, 18001}

LatValues == {-4500, -1, 0, 4500}

\* Inputs of calculate_building_perimeter: the validation gates, the zone
\* selection, and the projection with its sanity checks.
GateInputs ==
    {[g |-> Geom(kind, n, valid, Box(-7390, 4160, w, h), -7390, 4160), o |-> GoodLib] :
        kind \in {"falsy", "other", "nokey", "polygon"}, n \in 0..MaxCoords,
        valid \in {"valid", "repairable", "unrepairable"},
        w \in {1, 100, 101}, h \in {1, 100, 101}}

ZoneInputs ==
    {[g |-> Geom("polygon", MaxCoords, "valid", Box(lon, lat, 1, 1), lon, lat),
      o |-> Lib(u, m, "ok", "ok", Fl(4025), Fl(10015), Fl(5380), Fl(17890))] :
        lon \in LonValues, lat \in LatValues, u \in Outcomes, m \in Outcomes}

ProjectionInputs ==
    {[g |-> GoodGeom, o |-> Lib(u, "ok", xu, xm, len, area, mlen, Fl(17890))] :
        u \in Outcomes, xu \in Outcomes, xm \in Outcomes,
        len \in LengthValues, area \in AreaValues, mlen \in {Fl(5380), Fl(600000)}}

CalcInputs == GateInputs \cup ZoneInputs \cup ProjectionInputs

\* Polygons the footprint lookup can return (a Polygon that contains the
\* point), each with the library outcomes for it.
ServiceCalcInputs ==
    {[g |-> GoodGeom, o |-> GoodLib],
     [g |-> Geom("polygon", MaxCoords, "valid", Box(18000, 4160, 1, 1), 18000, 4160),
      o |-> GoodLib],
     [g |-> GoodGeom, o |-> Lib("raise", "ok", "ok", "ok", Fl(4025), Fl(10015), Fl(5380), Fl(17890))],
     [g |-> Geom("polygon", MaxCoords, "unrepairable", Box(-7390, 4160, 1, 1), -7390, 4160),
      o |-> GoodLib],
     [g |-> Geom("polygon", MaxCoords, "valid", Box(-7390, 4160, 101, 1), -7390, 4160),
      o |-> GoodLib],
     [g |-> GoodGeom, o |-> Lib("ok", "ok", "ok", "ok", Fl(500001), Fl(10015), Fl(5380), Fl(17890))],
     [g |-> GoodGeom, o |-> Lib("ok", "ok", "raise", "ok", Fl(4025), Fl(10015), Fl(5380), Fl(17890))],
     [g |-> GoodGeom, o |-> Lib("ok", "ok", "ok", "ok", NaN, NaN, Fl(5380), Fl(17890))]}

Here == Location(4160, -7390)

MsExt(geocode1, stac, direct, c) ==
    [geocode1 |-> geocode1, stac |-> stac, direct |-> direct,
     footprint |-> c.g, lib |-> c.o]

StacFallsBack == {"non200", "exception", "no_features"}

\* Outcomes of the external services for one run of the footprint method.
MsExts ==
    {MsExt(loc, "no_match", "none", [g |-> GoodGeom, o |-> GoodLib]) :
        loc \in {NoLocation, Location(0, -7390)}}
    \cup {MsExt(Here, stac, "none", [g |-> GoodGeom, o |-> GoodLib]) :
            stac \in StacFallsBack \cup {"no_match"}}
    \cup {MsExt(Here, "contains", "none", c) : c \in ServiceCalcInputs}
    \cup {MsExt(Here, stac, "found", c) : stac \in StacFallsBack, c \in ServiceCalcInputs}

Segment(pitch, hasArea, area) == [pitch |-> pitch, hasArea |-> hasArea, area |-> Fl(area)]

SegmentKinds ==
    {Segment(TRUE, TRUE, 400), Segment(TRUE, TRUE, 1), Segment(TRUE, TRUE, 0),
     Segment(FALSE, TRUE, 900), Segment(TRUE, FALSE, 0)}

RECURSIVE SeqsUpTo(_, _)
SeqsUpTo(S, n) ==
    IF n = 0 THEN {<<>>}
    ELSE LET shorter == SeqsUpTo(S, n - 1)
         IN  shorter \cup {Append(q, x) : q \in shorter, x \in S}

SolarOutcomes ==
    {[kind |-> "exception"], [kind |-> "status", code |-> 403],
     [kind |-> "status", code |-> 500], [kind |-> "ok", name |-> FALSE, segs |-> <<>>]}
    \cup {[kind |-> "ok", name |-> TRUE, segs |-> q] : q \in SeqsUpTo(SegmentKinds, MaxSegs)}

\* Outcomes of the external services for one run of the insights method.
SolarExts ==
    {[geocode2 |-> NoLocation, solar |-> [kind |-> "exception"]]}
    \cup {[geocode2 |-> Here, solar |-> so] : so \in SolarOutcomes}

Merge(a, b) == [k \in DOMAIN a \cup DOMAIN b |-> IF k \in DOMAIN a THEN a[k] ELSE b[k]]

\* ------------------------------------------------------------------------
\* The service: sequential requests against the process-wide cache
\* ------------------------------------------------------------------------
VARIABLES
    cache,    \* _result_cache: address -> dict, None where the key is absent
    pc,       \* per caller: "idle", "microsoft", "google", "done", "raised"
    addr,     \* per caller: the address of the call in progress
    results,  \* per caller: the local dict `results`
    ret,      \* per caller: the value returned by the call (None before)
    net,      \* per caller: the requests made by the call, in order
    tried,    \* per caller: the methods attempted by the call, in order
    nextId,   \* identity of the next dict created
    first,    \* per address: the object the first completed call returned
    writes,   \* per address: the number of cache_result calls
    fnIn,     \* a function applied on its own: [fn, ...arguments]
    fnOut     \* its value (None before it is applied)

vars == <<cache, pc, addr, results, ret, net, tried, nextId, first, writes, fnIn, fnOut>>

svcVars == <<cache, pc, addr, results, ret, net, tried, nextId, first, writes>>

fnVars == <<fnIn, fnOut>>

NoCall == [fn |-> "none"]

Callers == {1}

AnAddress == CHOOSE a \in Addresses : TRUE

InitService ==
    /\ cache = [a \in Addresses |-> None]
    /\ pc = [r \in Callers |-> "idle"]
    /\ addr = [r \in Callers |-> AnAddress]
    /\ results = [r \in Callers |-> EmptyDict]
    /\ ret = [r \in Callers |-> None]
    /\ net = [r \in Callers |-> <<>>]
    /\ tried = [r \in Callers |-> <<>>]
    /\ nextId = 1
    /\ first = [a \in Addresses |-> None]
    /\ writes = [a \in Addresses |-> 0]

Init == InitService /\ fnIn = NoCall /\ fnOut = None

\* get_cached_result(address)
get_cached_result(address) == cache[address]

\* (mutant) an entry already present is kept
CacheResultIfAbsent(address, result) ==
    /\ cache' = [cache EXCEPT ![address] = IF "none" \in DOMAIN @ THEN result ELSE @]
    /\ writes' = [writes EXCEPT ![address] = IF "none" \in DOMAIN cache[address]
                                               THEN @ + 1 ELSE @]

\* cache_result(address, result)
cache_result(address, result) ==
    /\ cache' = [cache EXCEPT ![address] = result]
    /\ writes' = [writes EXCEPT ![address] = @ + 1]

\* A dict created now: it gets the next identity.
New(d) == Put(d, "oid", nextId)

\* Lines 534-543: the cache check, and the start of the chain on a miss.
Call(r, address) ==
    /\ pc[r] = "idle"
    /\ LET cached_result == get_cached_result(address)
       IN  /\ addr' = [addr EXCEPT ![r] = address]
           /\ net' = [net EXCEPT ![r] = <<>>]
           /\ tried' = [tried EXCEPT ![r] = <<>>]
           /\ results' = [results EXCEPT ![r] = EmptyDict]
           /\ IF Truthy(cached_result)
              THEN /\ ret' = [ret EXCEPT ![r] = cached_result]
                   /\ pc' = [pc EXCEPT ![r] = "done"]
              ELSE /\ ret' = [ret EXCEPT ![r] = None]
                   /\ pc' = [pc EXCEPT ![r] = "microsoft"]
    /\ UNCHANGED <<cache, nextId, first, writes, fnVars>>

\* (mutant) method 1's success is not returned: the chain goes on
MicrosoftReturnedFallsThrough(r, m) ==
    /\ net' = [net EXCEPT ![r] = @ \o m.calls]
    /\ tried' = [tried EXCEPT ![r] = Append(@, "microsoft")]
    /\ nextId' = nextId + 1
    /\ results' = [results EXCEPT ![r] = Put(@, "microsoft", New(m.result))]
    /\ pc' = [pc EXCEPT ![r] = "google"]
    /\ UNCHANGED <<cache, writes, ret>>

\* (mutant) method 1's failure ends the request with the aggregate error
MicrosoftReturnedGivesUp(r, m) ==
    /\ net' = [net EXCEPT ![r] = @ \o m.calls]
    /\ tried' = [tried EXCEPT ![r] = Append(@, "microsoft")]
    /\ nextId' = nextId + 2
    /\ results' = [results EXCEPT ![r] = Put(@, "microsoft", New(m.result))]
    /\ pc' = [pc EXCEPT ![r] = "done"]
    /\ LET out == IF HasError(m.result)
                  THEN Put(FinalResult(Put(results[r], "microsoft", New(m.result))),
                           "oid", nextId + 1)
                  ELSE New(m.result)
       IN  cache_result(addr[r], out) /\ ret' = [ret EXCEPT ![r] = out]

\* Lines 548-558, m = [result, calls] being what method 1 gave.
MicrosoftReturned(r, m) ==
    /\ net' = [net EXCEPT ![r] = @ \o m.calls]
    /\ tried' = [tried EXCEPT ![r] = Append(@, "microsoft")]
    /\ IF IsRaise(m.result)
       THEN /\ pc' = [pc EXCEPT ![r] = "raised"]
            /\ UNCHANGED <<cache, writes, results, ret, nextId>>
       ELSE LET microsoft_result == New(m.result)
            IN  /\ nextId' = nextId + 1
                /\ results' = [results EXCEPT ![r] = Put(@, "microsoft", microsoft_result)]
                /\ IF ~HasError(microsoft_result)
                   THEN /\ cache_result(addr[r], microsoft_result)
                        /\ ret' = [ret EXCEPT ![r] = microsoft_result]
                        /\ pc' = [pc EXCEPT ![r] = "done"]
                   ELSE /\ pc' = [pc EXCEPT ![r] = "google"]
                        /\ UNCHANGED <<cache, writes, ret>>

\* Lines 545-558: method 1, and the return of its success.
Microsoft(r) ==
    /\ pc[r] = "microsoft"
    /\ \E ext \in MsExts :
        MicrosoftReturned(r, get_building_perimeter_microsoft(addr[r], ext))
    /\ UNCHANGED <<addr, first, fnVars>>

\* Lines 563-578, s = [result, calls] being what method 2 gave.
GoogleReturned(r, s) ==
    /\ net' = [net EXCEPT ![r] = @ \o s.calls]
    /\ tried' = [tried EXCEPT ![r] = Append(@, "google_solar")]
    /\ IF IsRaise(s.result)
       THEN /\ pc' = [pc EXCEPT ![r] = "raised"]
            /\ UNCHANGED <<cache, writes, results, ret, nextId>>
       ELSE LET google_result == New(s.result)
                results2 == Put(results[r], "google_solar", google_result)
                final_result == Put(FinalResult(results2), "oid", nextId + 1)
            IN  /\ results' = [results EXCEPT ![r] = results2]
                /\ pc' = [pc EXCEPT ![r] = "done"]
                /\ IF ~HasError(google_result)
                   THEN /\ nextId' = nextId + 1
                        /\ cache_result(addr[r], google_result)
                        /\ ret' = [ret EXCEPT ![r] = google_result]
                   ELSE /\ nextId' = nextId + 2
                        /\ cache_result(addr[r], final_result)
                        /\ ret' = [ret EXCEPT ![r] = final_result]

\* Lines 560-578: method 2, the return of its success, and the aggregate error.
Google(r) ==
    /\ pc[r] = "google"
    /\ \E ext \in SolarExts :
        GoogleReturned(r, get_google_solar_data(addr[r], ext))
    /\ UNCHANGED <<addr, first, fnVars>>

\* The caller takes the returned value; the call is over.
Return(r) ==
    /\ pc[r] = "done"
    /\ pc' = [pc EXCEPT ![r] = "idle"]
    /\ first' = [first EXCEPT ![addr[r]] = IF IsNone(@) THEN ret[r] ELSE @]
    /\ results' = [results EXCEPT ![r] = EmptyDict]
    /\ UNCHANGED <<cache, addr, ret, net, tried, nextId, writes, fnVars>>

Next ==
    \E r \in Callers :
        \/ \E address \in Addresses : Call(r, address)
        \/ Microsoft(r)
        \/ Google(r)
        \/ Return(r)

Spec == Init /\ [][Next]_vars

\* ------------------------------------------------------------------------
\* Two requests for one address, interleaved (the cache has no lock)
\* ------------------------------------------------------------------------
Callers2 == {1, 2}

\* Outcomes of the external services in the interleaved runs: the footprint
\* method succeeds or finds no footprint, the insights method succeeds or is
\* refused.
ParMsExts ==
    {MsExt(Here, stac, "none", [g |-> GoodGeom, o |-> GoodLib]) :
        stac \in {"contains", "no_match"}}

ParSolarExts ==
    {[geocode2 |-> Here, solar |-> so] :
        so \in {[kind |-> "status", code |-> 403],
                [kind |-> "ok", name |-> TRUE, segs |-> <<Segment(TRUE, TRUE, 400)>>]}}

InitPar ==
    /\ cache = [a \in Addresses |-> None]
    /\ pc = [r \in Callers2 |-> "idle"]
    /\ addr = [r \in Callers2 |-> AnAddress]
    /\ results = [r \in Callers2 |-> EmptyDict]
    /\ ret = [r \in Callers2 |-> None]
    /\ net = [r \in Callers2 |-> <<>>]
    /\ tried = [r \in Callers2 |-> <<>>]
    /\ nextId = 1
    /\ first = [a \in Addresses |-> None]
    /\ writes = [a \in Addresses |-> 0]
    /\ fnIn = NoCall /\ fnOut = None

MicrosoftPar(r) ==
    /\ pc[r] = "microsoft"
    /\ \E ext \in ParMsExts :
        MicrosoftReturned(r, get_building_perimeter_microsoft(addr[r], ext))
    /\ UNCHANGED <<addr, first, fnVars>>

GooglePar(r) ==
    /\ pc[r] = "google"
    /\ \E ext \in ParSolarExts :
        GoogleReturned(r, get_google_solar_data(addr[r], ext))
    /\ UNCHANGED <<addr, first, fnVars>>

NextPar ==
    \E r \in Callers2 :
        \/ Call(r, AnAddress)
        \/ MicrosoftPar(r)
        \/ GooglePar(r)
        \/ Return(r)

SpecPar == InitPar /\ [][NextPar]_vars

\* ------------------------------------------------------------------------
\* The functions applied on their own
\* ------------------------------------------------------------------------
\* Outcomes of the external services for one uncached request.
BestExts == {Merge(m, s) : m \in MsExts, s \in SolarExts}

GeocodeFails == Merge(MsExt(NoLocation, "no_match", "none", [g |-> GoodGeom, o |-> GoodLib]),
                      [geocode2 |-> NoLocation, solar |-> [kind |-> "exception"]])

\* What the cache can hold for an address: nothing, or an earlier result.
CachedValues ==
    {None, get_best_free_building_perimeter(AnAddress, None, GeocodeFails).result}

\* ------------------------------------------------------------------------
\* POST /api/solar/estimate (app.py)
\* ------------------------------------------------------------------------
\* The request, as request.get_json() sees it:
\*   [json |-> "raises"]  get_json() raises (no JSON content type, or a body
\*                         that is not JSON)
\*   [json |-> "null"]    get_json() returns None
\*   [json |-> "dict", keys |-> d]   a JSON object d
\* The estimator is not defined in services/solar.py: its outcome est is
\* [kind |-> "return", result |-> dict] or [kind |-> "raise"].
estimator(address, save_visualizations, est) ==
    IF est.kind = "raise" THEN Raise("estimator failed") ELSE est.result

\* dict.get(key, default)
DictGet(d, key, default) == IF key \in DOMAIN d THEN d[key] ELSE default

\* `not address` for a JSON value: None, "" and false are falsy.
Falsy(x) == x = None \/ x = [str |-> ""]

Response(json, status) == [json |-> json, status |-> status]

\* Lines 22-28, from the address read at line 19.
AfterAddress(data, address, est) ==
    IF Falsy(address)
    THEN [result |-> Response([error |-> Msg("Address is required")], 400), calls |-> <<>>]
    ELSE [result |-> LET result == estimator(address,
                                             DictGet(data, "save_visualizations",
                                                     [bool |-> FALSE]), est)
                     IN  IF IsRaise(result) THEN result ELSE Response(result, 200),
          calls  |-> <<"estimator">>]

\* The body of the try, lines 18-28: [result, calls], the result being the
\* response returned or the exception raised.
SolarEstimateBody(req, est) ==
    IF req.json = "raises"
    THEN [result |-> Raise("415 Unsupported Media Type"), calls |-> <<>>]
    ELSE IF req.json = "null"
    THEN [result |-> Raise("'NoneType' object has no attribute 'get'"), calls |-> <<>>]
    ELSE AfterAddress(req.keys, DictGet(req.keys, "address", None), est)

\* Lines 30-31 around b, the outcome of the body.
Handled(b) ==
    IF IsRaise(b.result)
    THEN [response |-> Response([error |-> MsgE("", b.result.raised)], 500), calls |-> b.calls]
    ELSE [response |-> b.result, calls |-> b.calls]

solar_estimate(req, est) == Handled(SolarEstimateBody(req, est))

Str(t) == [str |-> t]

Requests ==
    {[json |-> "raises"], [json |-> "null"]}
    \cup {[json |-> "dict", keys |-> d] :
            d \in {EmptyDict,
                   [save_visualizations |-> [bool |-> TRUE]],
                   [address |-> None],
                   [address |-> Str("")],
                   [address |-> Str("4 Pattie Pl")],
                   [address |-> Str("4 Pattie Pl"), save_visualizations |-> [bool |-> TRUE]]}}

EstimatorOutcomes ==
    {[kind |-> "raise"]}
    \cup {[kind |-> "return",
           result |-> get_best_free_building_perimeter(AnAddress, None, e).result] :
            e \in {GeocodeFails, Merge(MsExt(Here, "contains", "none",
                                             [g |-> GoodGeom, o |-> GoodLib]),
                                       [geocode2 |-> Here, solar |-> [kind |-> "exception"]])}}

FnInputs ==
    {[fn |-> "calc", g |-> c.g, o |-> c.o] : c \in CalcInputs}
    \cup {[fn |-> "microsoft", address |-> AnAddress, ext |-> e] : e \in MsExts}
    \cup {[fn |-> "solar", address |-> AnAddress, ext |-> e] : e \in SolarExts}
    \cup {[fn |-> "best", address |-> AnAddress, cached |-> c, ext |-> e] :
            c \in CachedValues, e \in BestExts}
    \cup {[fn |-> "http", req |-> q, est |-> e] : q \in Requests, e \in EstimatorOutcomes}

InitFn == InitService /\ fnIn \in FnInputs /\ fnOut = None

Pending(fn) == fnIn.fn = fn /\ IsNone(fnOut)

\* What is kept of a method outcome b = [result, calls]: the value returned
\* and the requests made.
Observed(b) == [value |-> b.result, calls |-> b.calls]

\* The same for get_best_free_building_perimeter, with the methods attempted.
ObservedBest(b) == [value |-> b.result, calls |-> b.calls, tried |-> b.tried]

ApplyCalc ==
    /\ Pending("calc")
    /\ fnOut' = [value |-> calculate_building_perimeter(fnIn.g, fnIn.o)]
    /\ UNCHANGED <<fnIn, svcVars>>

ApplyMicrosoft ==
    /\ Pending("microsoft")
    /\ fnOut' = Observed(get_building_perimeter_microsoft(fnIn.address, fnIn.ext))
    /\ UNCHANGED <<fnIn, svcVars>>

ApplySolar ==
    /\ Pending("solar")
    /\ fnOut' = Observed(get_google_solar_data(fnIn.address, fnIn.ext))
    /\ UNCHANGED <<fnIn, svcVars>>

ApplyBest ==
    /\ Pending("best")
    /\ fnOut' = ObservedBest(get_best_free_building_perimeter(fnIn.address, fnIn.cached,
                                                               fnIn.ext))
    /\ UNCHANGED <<fnIn, svcVars>>

ApplyHttp ==
    /\ Pending("http")
    /\ fnOut' = [value |-> solar_estimate(fnIn.req, fnIn.est)]
    /\ UNCHANGED <<fnIn, svcVars>>

NextFn == ApplyCalc \/ ApplyMicrosoft \/ ApplySolar \/ ApplyBest \/ ApplyHttp

SpecFn == InitFn /\ [][NextFn]_vars

\* The function fn has been applied: its input is fnIn, its value fnOut.value.
Applied(fn) == fnIn.fn = fn /\ ~IsNone(fnOut)

\* ------------------------------------------------------------------------
\* Properties of the service (specification Spec)
\* ------------------------------------------------------------------------
InSeq(x, q) == \E i \in 1..Len(q) : q[i] = x

Elements(q) == {q[i] : i \in 1..Len(q)}

\* Caller r's call is the first to complete for its address: it found no entry.
Uncached(r) == pc[r] \in {"microsoft", "google", "done"} /\ IsNone(first[addr[r]])

IsAggregate(d) == HasError(d) /\ "details" \in DOMAIN d

\* C1: for an address with no cached entry the footprint method is attempted
\* first; its success is returned and the insights method is then never
\* attempted; the insights method is attempted only after the footprint method
\* returned an error result, and the first success is what is returned.
C1_PriorityOrder ==
    \A r \in Callers : pc[r] /= "idle" =>
        /\ tried[r] \in {<<>>, <<"microsoft">>, <<"microsoft", "google_solar">>}
        /\ (Uncached(r) /\ pc[r] /= "microsoft") =>
              /\ tried[r] /= <<>> /\ tried[r][1] = "microsoft"
              /\ net[r] /= <<>> /\ net[r][1] = "geocode"
        /\ (InSeq("google_solar", tried[r]) \/ InSeq("building_insights", net[r])) =>
              /\ "microsoft" \in DOMAIN results[r]
              /\ HasError(results[r].microsoft)
        /\ (pc[r] = "done" /\ tried[r] /= <<>> /\ ~HasError(results[r].microsoft)) =>
              /\ ret[r] = results[r].microsoft
              /\ tried[r] = <<"microsoft">>
              /\ ~InSeq("building_insights", net[r])
        /\ (pc[r] = "done" /\ tried[r] = <<"microsoft", "google_solar">>
                /\ ~HasError(results[r].google_solar)) =>
              ret[r] = results[r].google_solar

\* An uncached call returned the footprint method's success without ever
\* attempting the insights method.
C1_Witness ==
    \E r \in Callers :
        /\ pc[r] = "done" /\ Uncached(r)
        /\ tried[r] = <<"microsoft">> /\ ~HasError(ret[r])
        /\ ret[r].method = "microsoft_building_footprints"

\* C2: every call after the first completed call for an address returns the
\* identical object (same identity, same content) that the first call
\* returned, whether a success or the all-methods-failed error, and makes no
\* request; the entry is written once and never replaced.
C2_CachedObjectReturned ==
    /\ \A r \in Callers : (pc[r] = "done" /\ ~IsNone(first[addr[r]])) =>
          /\ ret[r] = first[addr[r]]
          /\ net[r] = <<>>
          /\ tried[r] = <<>>
    /\ \A a \in Addresses : ~IsNone(first[a]) =>
          /\ cache[a] = first[a]
          /\ writes[a] = 1

\* A later call for an address whose first call ended in the aggregate error
\* has returned.
C2_Witness ==
    \E r \in Callers :
        /\ pc[r] = "done" /\ ~IsNone(first[addr[r]])
        /\ IsAggregate(ret[r])
        /\ \E a \in Addresses : a /= addr[r] /\ ~IsNone(first[a]) /\ ~HasError(first[a])

\* C3: the aggregate error is returned exactly when every attempted method
\* returned an error result, and its details hold, under each attempted
\* method's key, that method's own error result.
C3_AggregateCarriesDetails ==
    \A r \in Callers : (pc[r] = "done" /\ tried[r] /= <<>>) =>
        /\ IsAggregate(ret[r]) <=> (\A m \in DOMAIN results[r] : HasError(results[r][m]))
        /\ IsAggregate(ret[r]) =>
              /\ ret[r].error = Msg("All free methods failed")
              /\ DOMAIN ret[r].details = Elements(tried[r])
              /\ \A m \in DOMAIN ret[r].details :
                    /\ ret[r].details[m] = results[r][m]
                    /\ HasError(ret[r].details[m])
                    /\ ~IsAggregate(ret[r].details[m])

\* Both methods failed, the second by a non-200 answer, and the aggregate
\* error was returned.
C3_Witness ==
    \E r \in Callers :
        /\ pc[r] = "done" /\ IsAggregate(ret[r]) /\ tried[r] /= <<>>
        /\ ret[r].details.google_solar.error.text = "Google Solar API error: "
        /\ ret[r].details.microsoft.error.text = "No building footprint found at this location"

\* C4 (as claimed): the aggregate error is returned only after a third
\* source, raster mask analysis, has been attempted and has failed.
C4_RasterThirdTier ==
    \A r \in Callers : (pc[r] = "done" /\ tried[r] /= <<>> /\ IsAggregate(ret[r])) =>
        /\ Len(tried[r]) = 3
        /\ tried[r][3] = "raster_mask"

\* C4 (amended): the chain has two tiers. When the footprint method and the
\* insights method have both failed the aggregate error is returned at once:
\* no third source is attempted and no request other than those of the two
\* methods is made.
C4_TwoTiers ==
    \A r \in Callers : pc[r] /= "idle" =>
        /\ Len(tried[r]) <= 2
        /\ Elements(net[r]) \subseteq
              {"geocode", "stac_search", "reverse_geocode", "building_insights"}
        /\ (pc[r] = "done" /\ tried[r] /= <<>> /\ IsAggregate(ret[r])) =>
              tried[r] = <<"microsoft", "google_solar">>
        /\ (pc[r] = "done" /\ tried[r] = <<"microsoft", "google_solar">>
                /\ HasError(results[r].google_solar)) =>
              IsAggregate(ret[r])

\* Both methods were attempted and failed, and the aggregate error is returned.
C4_Witness ==
    \E r \in Callers :
        /\ pc[r] = "done" /\ tried[r] = <<"microsoft", "google_solar">>
        /\ HasError(results[r].microsoft) /\ HasError(results[r].google_solar)
        /\ IsAggregate(ret[r])

\* C6: every value returned by the estimator or by a method, and every value
\* in the cache, is success-shaped (the measurement fields, no "error") or
\* error-shaped ("error", no measurement field), never both, never neither;
\* an error of the calculator annotated with address/method/accuracy by the
\* footprint method carries no measurement field.
MeasurementKeys ==
    {"roof_perimeter_feet", "roof_perimeter_meters", "roof_area_feet",
     "roof_area_meters", "estimated_cost_usd"}

SuccessShaped(d) == MeasurementKeys \subseteq DOMAIN d /\ ~HasError(d)

ErrorShaped(d) == HasError(d) /\ MeasurementKeys \cap DOMAIN d = {}

C6_EitherShape ==
    /\ \A r \in Callers :
          /\ ~IsNone(ret[r]) => (SuccessShaped(ret[r]) \/ ErrorShaped(ret[r]))
          /\ \A m \in DOMAIN results[r] :
                SuccessShaped(results[r][m]) \/ ErrorShaped(results[r][m])
          /\ IsAggregate(ret[r]) =>
                \A m \in DOMAIN ret[r].details : ErrorShaped(ret[r].details[m])
    /\ \A a \in Addresses :
          ~IsNone(cache[a]) => (SuccessShaped(cache[a]) \/ ErrorShaped(cache[a]))

\* The footprint method returned an error of the calculator, annotated.
C6_Witness ==
    \E r \in Callers :
        /\ "microsoft" \in DOMAIN results[r]
        /\ HasError(results[r].microsoft)
        /\ {"address", "method", "accuracy"} \subseteq DOMAIN results[r].microsoft
        /\ results[r].microsoft.error.text = "Unrealistic perimeter: "

\* ------------------------------------------------------------------------
\* Properties of the functions (specification SpecFn)
\* ------------------------------------------------------------------------
\* The lookup of the footprint method ends without a footprint.
NoFootprint(ext) ==
    \/ ext.stac = "no_match"
    \/ ext.stac \in {"non200", "exception", "no_features"} /\ ext.direct = "none"

\* The insights method meets a failure: no location, an exception, a non-200
\* answer, or an answer without "name".
SolarFails(ext) ==
    \/ ~ext.geocode2.found
    \/ ext.solar.kind \in {"exception", "status"}
    \/ ext.solar.kind = "ok" /\ ~ext.solar.name

MicrosoftFails(ext) == ~ext.geocode1.found \/ NoFootprint(ext)

\* The calculator is given a malformed geometry, or the libraries raise on
\* every path.
CalcFails(g, o) ==
    \/ g.kind /= "polygon"
    \/ g.n < 3
    \/ g.valid = "unrepairable"
    \/ o.utmCtor = "raise" /\ o.mercCtor = "raise"
    \/ o.xform.utm = "raise" /\ o.xform.merc = "raise"

\* C5: no component raises to its caller. Each of the four functions ends by
\* returning a dict, whatever the input and the outcomes of the external
\* calls, and every failure (a non-200 answer, a missing field, an exception
\* of a collaborator, a malformed geometry such as an empty coordinate list)
\* is returned as a dict with an "error" message.
C5_NeverRaises ==
    ~IsNone(fnOut) =>
        /\ ~IsRaise(fnOut.value)
        /\ ~IsNone(fnOut.value)
        /\ HasError(fnOut.value) => "text" \in DOMAIN fnOut.value.error
        /\ (fnIn.fn = "calc" /\ CalcFails(fnIn.g, fnIn.o)) => HasError(fnOut.value)
        /\ (fnIn.fn = "microsoft" /\ MicrosoftFails(fnIn.ext)) => HasError(fnOut.value)
        /\ (fnIn.fn = "solar" /\ SolarFails(fnIn.ext)) => HasError(fnOut.value)
        /\ (fnIn.fn = "best" /\ IsNone(fnIn.cached)
               /\ MicrosoftFails(fnIn.ext) /\ SolarFails(fnIn.ext)) => HasError(fnOut.value)

\* The calculator was given a Polygon with an empty coordinate list: the
\* IndexError came back as an error result.
C5_Witness ==
    /\ Applied("calc")
    /\ fnIn.g.kind = "polygon" /\ fnIn.g.n = 0
    /\ HasError(fnOut.value)
    /\ fnOut.value.error.text = "Failed to calculate perimeter: "

\* The projection family a success result of the calculator was computed in.
Family(out) == IF out.utm_zone = WebMercator THEN "merc" ELSE "utm"

\* The total perimeter of the segments of an insights answer.
TotalPerimeter(ext) ==
    SegmentTotals(ext.solar.segs, [total_area |-> Fl(0), total_perimeter |-> Fl(0)]).total_perimeter

\* C7 (as claimed): cost = perimeter_feet * 6.10 with perimeter_feet =
\* perimeter_meters * 3.28084 on the footprint path, and cost =
\* total_perimeter_meters * 20 on the insights path (to the cent).
C7_PerMeterOnInsights ==
    /\ (Applied("calc") /\ ~HasError(fnOut.value)) =>
          fnOut.value.estimated_cost_usd =
              Round(FMul(FMul(fnIn.o.length[Family(fnOut.value)], Dec(328084, 5)),
                         Dec(610, 2)), 2)
    /\ (Applied("solar") /\ ~HasError(fnOut.value)) =>
          fnOut.value.estimated_cost_usd =
              Round(FMul(TotalPerimeter(fnIn.ext), Dec(20, 0)), 2)

\* C7 (amended): on both paths the cost is the length in feet times 6.10 per
\* foot, rounded to the cent, the length in feet being the unrounded length
\* in metres times 3.28084; the insights path uses the same per-foot rate,
\* not a per-metre rate.
C7_CostPerFoot ==
    /\ (Applied("calc") /\ ~HasError(fnOut.value)) =>
          /\ fnOut.value.estimated_cost_usd =
                Round(FMul(FMul(fnIn.o.length[Family(fnOut.value)], Dec(328084, 5)),
                           Dec(610, 2)), 2)
          /\ fnOut.value.roof_perimeter_feet =
                Round(FMul(fnIn.o.length[Family(fnOut.value)], Dec(328084, 5)), 1)
          /\ fnOut.value.cost_per_foot = Dec(610, 2)
    /\ (Applied("solar") /\ ~HasError(fnOut.value)) =>
          /\ fnOut.value.estimated_cost_usd =
                Round(FMul(FMul(TotalPerimeter(fnIn.ext), Dec(328084, 5)), Dec(610, 2)), 2)
          /\ fnOut.value.roof_perimeter_feet =
                Round(FMul(TotalPerimeter(fnIn.ext), Dec(328084, 5)), 1)
          /\ fnOut.value.cost_per_foot = Dec(610, 2)

\* The insights method priced one 4 m2 segment (8 m of perimeter): 160.10.
C7_Witness ==
    /\ Applied("solar") /\ ~HasError(fnOut.value)
    /\ TotalPerimeter(fnIn.ext) = Fl(800)
    /\ fnOut.value.estimated_cost_usd = Fl(16010)

\* x is NaN or lies in the closed interval [lo, hi].
NotOutside(x, lo, hi) == IsNaN(x) \/ (x.v >= lo * Scale /\ x.v <= hi * Scale)

Inside(x, lo, hi) == ~IsNaN(x) /\ x.v > lo * Scale /\ x.v < hi * Scale

OnBoundary(x, lo, hi) == ~IsNaN(x) /\ (x.v = lo * Scale \/ x.v = hi * Scale)

\* The calculator projects a good polygon in its UTM zone without exception.
ProjectsInUtm == fnIn.g = GoodGeom /\ fnIn.o.utmCtor = "ok" /\ fnIn.o.xform.utm = "ok"

\* C8 (as claimed): success only if the projected perimeter lies strictly
\* inside (1, 5000) and the area strictly inside (1, 10000); the boundary
\* values 1, 5000 and 10000 give an error result.
C8_OpenIntervals ==
    Applied("calc") =>
        /\ ~HasError(fnOut.value) =>
              /\ Inside(fnIn.o.length[Family(fnOut.value)], 1, 5000)
              /\ Inside(fnIn.o.area[Family(fnOut.value)], 1, 10000)
        /\ (ProjectsInUtm /\ (\/ OnBoundary(fnIn.o.length.utm, 1, 5000)
                              \/ OnBoundary(fnIn.o.area.utm, 1, 10000))) =>
              HasError(fnOut.value)

\* C8 (amended): success only if none of the four comparisons perimeter >
\* 5000, area > 10000, perimeter < 1, area < 1 is true: the perimeter lies in
\* the closed interval [1, 5000] and the area in [1, 10000], or the value is
\* NaN; the boundary values 1, 5000 and 10000 are accepted.
C8_ClosedIntervals ==
    Applied("calc") =>
        /\ ~HasError(fnOut.value) =>
              /\ NotOutside(fnIn.o.length[Family(fnOut.value)], 1, 5000)
              /\ NotOutside(fnIn.o.area[Family(fnOut.value)], 1, 10000)
        /\ (ProjectsInUtm /\ NotOutside(fnIn.o.length.utm, 1, 5000)
                          /\ NotOutside(fnIn.o.area.utm, 1, 10000)) =>
              ~HasError(fnOut.value)
        /\ (ProjectsInUtm /\ ~NotOutside(fnIn.o.length.utm, 1, 5000)) =>
              HasError(fnOut.value)

\* A perimeter of exactly 5000 m with an area of exactly 10000 m2 succeeded.
C8_Witness ==
    /\ Applied("calc") /\ ~HasError(fnOut.value)
    /\ fnIn.o.length[Family(fnOut.value)] = Fl(5000 * Scale)
    /\ fnIn.o.area[Family(fnOut.value)] = Fl(10000 * Scale)

\* floor((lon + 180) / 6) + 1 for a longitude in 1/Scale degrees.
FloorZone(lon) == ((lon + 180 * Scale) \div (6 * Scale)) + 1

Clamp(z, lo, hi) == IF z < lo THEN lo ELSE IF z > hi THEN hi ELSE z

EpsgOf(z, lat) ==
    [prefix |-> IF lat >= 0 THEN "EPSG:326" ELSE "EPSG:327", zone |-> <<z \div 10, z % 10>>]

\* The calculator succeeded on a centroid longitude in [-180, 180] whose UTM
\* transformer could be built.
ZoneCase ==
    /\ Applied("calc") /\ ~HasError(fnOut.value)
    /\ fnIn.o.utmCtor = "ok"
    /\ fnIn.g.clng.v >= -180 * Scale /\ fnIn.g.clng.v <= 180 * Scale

\* C9 (as claimed): for lon in [-180, 180] the zone is floor((lon+180)/6)+1
\* clamped into 1..60 (lon = 180 gives zone 60) and the code is 326zz for a
\* centroid latitude >= 0, 327zz below.
C9_ClampedAt180 ==
    ZoneCase =>
        fnOut.value.utm_zone =
            EpsgOf(Clamp(FloorZone(fnIn.g.clng.v), 1, 60), fnIn.g.clat.v)

\* C9 (amended): for lon in [-180, 180) the zone is floor((lon+180)/6)+1,
\* which lies in 1..60, and the code is 326zz for a centroid latitude >= 0,
\* 327zz below; lon = 180 gives zone 61, which is rejected: the projection
\* is then Web Mercator (EPSG:3857), not zone 60.
C9_ZoneOrMercator ==
    ZoneCase =>
        /\ fnIn.g.clng.v < 180 * Scale =>
              /\ FloorZone(fnIn.g.clng.v) \in 1..60
              /\ fnOut.value.utm_zone = EpsgOf(FloorZone(fnIn.g.clng.v), fnIn.g.clat.v)
        /\ fnIn.g.clng.v = 180 * Scale => fnOut.value.utm_zone = WebMercator

\* Longitude 179.9 in the southern hemisphere: EPSG:32760.
C9_Witness ==
    /\ ZoneCase
    /\ fnIn.g.clng = Fl(17990) /\ fnIn.g.clat.v < 0
    /\ fnOut.value.utm_zone = [prefix |-> "EPSG:327", zone |-> <<6, 0>>]

\* The polygon passes the validation gates of the calculator.
PassesGates(g) ==
    /\ g.kind = "polygon" /\ g.n >= 3 /\ g.valid /= "unrepairable"
    /\ g.bounds[3].v - g.bounds[1].v <= Scale
    /\ g.bounds[4].v - g.bounds[2].v <= Scale

\* The UTM step fails: the zone is out of range, the UTM transformer cannot
\* be built, or the UTM transform of the polygon raises.
UtmStepFails(g, o) ==
    \/ FloorZone(g.clng.v) \notin 1..60
    \/ o.utmCtor = "raise"
    \/ o.xform.utm = "raise"

\* C10: if the UTM step fails, the polygon is projected with Web Mercator
\* and the computation goes on to the sanity checks: with a working Web
\* Mercator projection and plausible values the result is a success that
\* reports EPSG:3857.
C10_FallbackOnAnyUtmFailure ==
    (/\ Applied("calc")
     /\ PassesGates(fnIn.g)
     /\ fnIn.g.clng.v >= -180 * Scale
     /\ UtmStepFails(fnIn.g, fnIn.o)
     /\ fnIn.o.mercCtor = "ok" /\ fnIn.o.xform.merc = "ok"
     /\ Inside(fnIn.o.length.merc, 1, 5000) /\ Inside(fnIn.o.area.merc, 1, 10000))
    => (~HasError(fnOut.value) /\ fnOut.value.utm_zone = WebMercator)

\* The sums over every segment of a list: the ground areas, and 4 * sqrt of
\* each positive ground area.
RECURSIVE SumOfAreas(_)
SumOfAreas(segs) ==
    IF segs = <<>> THEN 0
    ELSE (IF Head(segs).hasArea THEN Head(segs).area.v ELSE 0) + SumOfAreas(Tail(segs))

RECURSIVE SumOfSquarePerimeters(_)
SumOfSquarePerimeters(segs) ==
    IF segs = <<>> THEN 0
    ELSE (IF Head(segs).hasArea /\ Head(segs).area.v > 0
          THEN 4 * FSqrt(Head(segs).area).v ELSE 0)
         + SumOfSquarePerimeters(Tail(segs))

\* C11: for every list of roof segments, the insights method reports the
\* total area as the sum of the ground areas of all segments and the total
\* perimeter as the sum over all segments of 4 * sqrt(ground area); no
\* segment that has a ground area is left out.
C11_AllSegmentsSummed ==
    (Applied("solar") /\ ~HasError(fnOut.value)) =>
        /\ fnOut.value.roof_area_meters = Round(Fl(SumOfAreas(fnIn.ext.solar.segs)), 1)
        /\ fnOut.value.roof_perimeter_meters =
              Round(Fl(SumOfSquarePerimeters(fnIn.ext.solar.segs)), 1)

\* C12: the calculator returns a success only for an input that passed every
\* gate (type Polygon, at least 3 vertices, valid or repaired, bounding box
\* of at most 1 degree on both axes); an input failing a gate gives an error.
C12_SuccessOnlyThroughGates ==
    Applied("calc") =>
        /\ ~HasError(fnOut.value) =>
              /\ fnIn.g.kind = "polygon"
              /\ fnIn.g.n >= 3
              /\ fnIn.g.valid \in {"valid", "repairable"}
              /\ Abs(fnIn.g.bounds[3].v - fnIn.g.bounds[1].v) <= Scale
              /\ Abs(fnIn.g.bounds[4].v - fnIn.g.bounds[2].v) <= Scale
        /\ ~PassesGates(fnIn.g) => HasError(fnOut.value)

\* A repaired triangle whose box is exactly 1 degree wide and high succeeded.
C12_Witness ==
    /\ Applied("calc") /\ ~HasError(fnOut.value)
    /\ fnIn.g.n = 3 /\ fnIn.g.valid = "repairable"
    /\ fnIn.g.bounds[3].v - fnIn.g.bounds[1].v = Scale
    /\ fnIn.g.bounds[4].v - fnIn.g.bounds[2].v = Scale

\* The request carries no address: no JSON body, no address key, or an
\* empty address.
NoAddress(req) ==
    \/ req.json \in {"raises", "null"}
    \/ req.json = "dict" /\ "address" \notin DOMAIN req.keys
    \/ req.json = "dict" /\ "address" \in DOMAIN req.keys
          /\ req.keys.address \in {[none |-> TRUE], [str |-> ""]}

\* C13: POST /api/solar/estimate answers 400 for every request without an
\* address (key absent, empty, or no JSON body at all) and then never
\* invokes the estimator (so the cache is left alone); it answers 500 only
\* when an exception escapes the estimator, and an error-shaped estimate is
\* passed through with status 200.
C13_MissingAddressIs400 ==
    Applied("http") =>
        /\ NoAddress(fnIn.req) =>
              (fnOut.value.response.status = 400 /\ fnOut.value.calls = <<>>)
        /\ (~NoAddress(fnIn.req) /\ fnOut.value.response.status = 500) =>
              fnIn.est.kind = "raise"
        /\ (~NoAddress(fnIn.req) /\ fnIn.est.kind = "return") =>
              /\ fnOut.value.response.status = 200
              /\ fnOut.value.response.json = fnIn.est.result

\* The footprint STAC search fails upstream: a non-200 answer or an exception.
StacFails(ext) == ext.stac \in {"non200", "exception"}

\* The requests of the insights method when it gets as far as its request.
InsightsCalls == <<"geocode", "building_insights">>

\* C14 (as claimed): the first upstream failure met by a method ends that
\* method's attempt with an error result without any further external
\* lookup for that method: after a failed STAC search the footprint method
\* has made the geocoding request and the search only, and returns an error.
C14_FirstFailureEndsMethod ==
    (Applied("microsoft") /\ ~GeocodeFailed(fnIn.ext.geocode1) /\ StacFails(fnIn.ext)) =>
        /\ fnOut.calls = <<"geocode", "stac_search">>
        /\ HasError(fnOut.value)

\* C14 (amended): no request is repeated and each method is attempted at
\* most once per request, in the order footprint, insights; a failed
\* geocoding or a failed insights request ends its method with an error
\* result at once; but a failed STAC search (non-200, exception) or one
\* without features is followed, inside the footprint method, by one
\* secondary lookup (reverse geocoding and the local footprint file), and the
\* method ends with an error then only if that lookup finds no footprint (or
\* the calculation fails); after an error of the footprint method the
\* selector goes on to the insights method.
C14_OneSecondaryLookup ==
    /\ Applied("microsoft") =>
          /\ fnOut.calls \in {<<"geocode">>, <<"geocode", "stac_search">>,
                              <<"geocode", "stac_search", "reverse_geocode">>}
          /\ ~fnIn.ext.geocode1.found =>
                (fnOut.calls = <<"geocode">> /\ HasError(fnOut.value))
          /\ (~GeocodeFailed(fnIn.ext.geocode1)
                /\ fnIn.ext.stac \in {"non200", "exception", "no_features"}) =>
                /\ fnOut.calls = <<"geocode", "stac_search", "reverse_geocode">>
                /\ fnIn.ext.direct = "none" => HasError(fnOut.value)
                /\ (fnIn.ext.direct = "found" /\ fnIn.ext.footprint = GoodGeom
                       /\ fnIn.ext.lib = GoodLib) => ~HasError(fnOut.value)
          /\ (~GeocodeFailed(fnIn.ext.geocode1)
                /\ fnIn.ext.stac \in {"contains", "no_match"}) =>
                fnOut.calls = <<"geocode", "stac_search">>
    /\ Applied("solar") =>
          /\ fnOut.calls \in {<<"geocode">>, InsightsCalls}
          /\ ~fnIn.ext.geocode2.found =>
                (fnOut.calls = <<"geocode">> /\ HasError(fnOut.value))
          /\ (fnIn.ext.geocode2.found /\ fnIn.ext.solar.kind \in {"exception", "status"}) =>
                (fnOut.calls = InsightsCalls /\ HasError(fnOut.value))
    /\ (Applied("best") /\ IsNone(fnIn.cached)) =>
          /\ fnOut.tried \in {<<"microsoft">>, <<"microsoft", "google_solar">>}
          /\ (MicrosoftFails(fnIn.ext) \/ fnOut.tried = <<"microsoft", "google_solar">>) =>
                /\ fnOut.tried = <<"microsoft", "google_solar">>
                /\ \E k \in 1..3 :
                      /\ Len(fnOut.calls) > k
                      /\ SubSeq(fnOut.calls, k + 1, Len(fnOut.calls))
                            \in {<<"geocode">>, InsightsCalls}
                      /\ SubSeq(fnOut.calls, 1, k)
                            \in {<<"geocode">>, <<"geocode", "stac_search">>,
                                 <<"geocode", "stac_search", "reverse_geocode">>}

\* The STAC search answered non-200 and the secondary lookup found the
\* footprint: the footprint method succeeded after three requests.
C14_Witness ==
    /\ Applied("microsoft")
    /\ fnIn.ext.stac = "non200"
    /\ fnOut.calls = <<"geocode", "stac_search", "reverse_geocode">>
    /\ ~HasError(fnOut.value)

\* ------------------------------------------------------------------------
\* Properties of interleaved requests (specification SpecPar)
\* ------------------------------------------------------------------------
\* Caller r's last call missed the cache and ran the chain to its end.
Computed(r) == pc[r] \in {"done", "idle"} /\ tried[r] /= <<>>

\* C15: when two requests for the same uncached address overlap so that both
\* pass the cache check before either writes, both run the method chain
\* (each makes its own network calls), the entry of the address is written
\* twice, the two callers hold different result objects, and the cache keeps
\* the one written last.
C15_OverlappingCallsBothCompute ==
    \A r1 \in Callers2, r2 \in Callers2 :
        (r1 /= r2 /\ addr[r1] = addr[r2] /\ Computed(r1) /\ Computed(r2)) =>
            /\ net[r1] /= <<>> /\ net[r2] /= <<>>
            /\ writes[addr[r1]] = 2
            /\ ret[r1].oid /= ret[r2].oid
            /\ cache[addr[r1]] = IF ret[r1].oid > ret[r2].oid THEN ret[r1] ELSE ret[r2]

\* Both callers are done after a miss each; caller 2 wrote last and caller 1
\* holds an object that is no longer the cached one.
C15_Witness ==
    /\ pc[1] = "done" /\ pc[2] = "done"
    /\ tried[1] /= <<>> /\ tried[2] /= <<>>
    /\ Len(net[1]) >= 2 /\ Len(net[2]) >= 2
    /\ writes[AnAddress] = 2
    /\ cache[AnAddress] = ret[2]
    /\ ret[1] /= cache[AnAddress]

\* The value, where it is a number, is greater than 0.
Positive(x) == IsNaN(x) \/ x.v > 0

PositiveTotals(d) ==
    /\ Positive(d.roof_perimeter_meters) /\ Positive(d.roof_perimeter_feet)
    /\ Positive(d.roof_area_meters) /\ Positive(d.roof_area_feet)
    /\ Positive(d.estimated_cost_usd)

\* C16: every success result returned by the estimator or stored in the
\* cache has strictly positive perimeter, area and cost (stated for the
\* totals that are numbers); an insights answer without a usable roof
\* segment gives an error, never a success with zero totals.
C16_PositiveSuccess ==
    /\ \A r \in Callers :
          (pc[r] = "done" /\ ~HasError(ret[r])) => PositiveTotals(ret[r])
    /\ \A a \in Addresses :
          (~IsNone(cache[a]) /\ ~HasError(cache[a])) => PositiveTotals(cache[a])

====
